---- MODULE Spec2Model ----
(***************************************************************************)
(* Model of the gateway-header authentication layer and the SSE server     *)
(* lifecycle of github-mcp-server:                                         *)
(*   internal/ghmcp/auth.go            (extractUserContext, the two gates) *)
(*   internal/ghmcp/sse_auth_wrapper.go (routes, CORS, run/shutdown)       *)
(*   cmd/github-mcp-server/main.go      (sseCmd configuration)             *)
(*                                                                         *)
(* Header values are sequences of one-character strings, so that           *)
(* strings.HasPrefix and strings.TrimPrefix are computed, not assumed.     *)
(* Paths, bodies and error texts are TLA+ strings (only compared and       *)
(* concatenated).                                                          *)
(***************************************************************************)
EXTENDS Integers, Sequences, FiniteSets, TLC

(***************************************************************************)
(* Bounds of the model.                                                    *)
(***************************************************************************)
\* longest raw credential that follows "Bearer " in a generated request
MaxTokenLen == 1
\* number of connection slots the listener can fill
MaxConns == 2
\* seconds that pass in one step of the clock
TickSeconds == 10
\* longest chain of values in a generated context
MaxCtxDepth == 4

(***************************************************************************)
(* Program constants.                                                      *)
(***************************************************************************)
StatusOK == 200
StatusUnauthorized == 401
\* cap(errC): errC := make(chan error, 1)
ErrCCap == 1
\* http.Server.WriteTimeout, in seconds
WriteTimeout == 30

\* the empty string as a header value (Header.Get of an absent header)
Empty == <<>>

\* "Bearer " as used by HasPrefix / TrimPrefix in extractUserContext
BearerPrefix == <<"B", "e", "a", "r", "e", "r", " ">>

ErrMissingAuthorization == "missing Authorization header"
ErrInvalidFormat == "invalid Authorization header format"
ErrMissingUserHeaders ==
    "missing required user context headers (X-User-ID or X-User-Email)"

(***************************************************************************)
(* strings.HasPrefix / strings.TrimPrefix                                  *)
(***************************************************************************)
HasPrefix(s, prefix) ==
    /\ Len(s) >= Len(prefix)
    /\ SubSeq(s, 1, Len(prefix)) = prefix

TrimPrefix(s, prefix) ==
    IF HasPrefix(s, prefix) THEN SubSeq(s, Len(prefix) + 1, Len(s)) ELSE s

(***************************************************************************)
(* context.Context: a chain of (key, value) pairs, newest last.            *)
(* A key is its dynamic type together with its text, as Go compares        *)
(* interface values.                                                       *)
(***************************************************************************)
\* Variant of userContextKey: the key is the plain string "user_context"
\* instead of a value of the package's own contextKey type.
userContextKeyPlainString == [type |-> "string", name |-> "user_context"]

userContextKey == [type |-> "ghmcp.contextKey", name |-> "user_context"]

\* what net/http puts in a request context before the handler runs
BaseContext ==
    << [key |-> [type |-> "http.contextKey", name |-> "http-server"],
        val |-> [server |-> "httpServer"]] >>

RECURSIVE CtxValue(_, _)
CtxValue(ctx, key) ==
    IF ctx = <<>> THEN [found |-> FALSE, val |-> [nil |-> TRUE]]
    ELSE IF ctx[Len(ctx)].key = key
         THEN [found |-> TRUE, val |-> ctx[Len(ctx)].val]
         ELSE CtxValue(SubSeq(ctx, 1, Len(ctx) - 1), key)

\* the nil *UserContext returned together with ok = false
NilUser == [nil |-> TRUE]

GetUserContext(ctx) ==
    LET v == CtxValue(ctx, userContextKey)
    IN  IF v.found THEN [user |-> v.val, ok |-> TRUE]
        ELSE [user |-> NilUser, ok |-> FALSE]

WithUserContext(ctx, userCtx) ==
    Append(ctx, [key |-> userContextKey, val |-> userCtx])

(***************************************************************************)
(* extractUserContext                                                      *)
(***************************************************************************)
HeaderGet(r, name) == r.header[name]

ExtractFailure(msg) == [ok |-> FALSE, err |-> msg, user |-> NilUser]

UserContext(userID, email, name, sessionID, token, requestID) ==
    [UserID    |-> userID,
     Email     |-> email,
     Name      |-> name,
     SessionID |-> sessionID,
     Token     |-> token,
     RequestID |-> requestID]

\* Variant of extractUserContext that keeps the whole Authorization value as
\* the token (the TrimPrefix is missing).
extractUserContextUntrimmed(r) ==
    LET authHeader == HeaderGet(r, "Authorization")
        userID     == HeaderGet(r, "X-User-ID")
        email      == HeaderGet(r, "X-User-Email")
    IN  IF authHeader = Empty
          THEN ExtractFailure(ErrMissingAuthorization)
        ELSE IF ~HasPrefix(authHeader, BearerPrefix)
          THEN ExtractFailure(ErrInvalidFormat)
        ELSE IF userID = Empty \/ email = Empty
          THEN ExtractFailure(ErrMissingUserHeaders)
        ELSE [ok   |-> TRUE,
              err  |-> "",
              user |-> UserContext(userID, email,
                                   HeaderGet(r, "X-User-Name"),
                                   HeaderGet(r, "X-Session-ID"),
                                   authHeader,
                                   HeaderGet(r, "X-Gateway-Request-ID"))]

\* Variant of extractUserContext that fails only when both X-User-ID and
\* X-User-Email are empty (&& written for ||).
extractUserContextBothEmpty(r) ==
    LET authHeader == HeaderGet(r, "Authorization")
        userID     == HeaderGet(r, "X-User-ID")
        email      == HeaderGet(r, "X-User-Email")
    IN  IF authHeader = Empty
          THEN ExtractFailure(ErrMissingAuthorization)
        ELSE IF ~HasPrefix(authHeader, BearerPrefix)
          THEN ExtractFailure(ErrInvalidFormat)
        ELSE IF userID = Empty /\ email = Empty
          THEN ExtractFailure(ErrMissingUserHeaders)
        ELSE [ok   |-> TRUE,
              err  |-> "",
              user |-> UserContext(userID, email,
                                   HeaderGet(r, "X-User-Name"),
                                   HeaderGet(r, "X-Session-ID"),
                                   TrimPrefix(authHeader, BearerPrefix),
                                   HeaderGet(r, "X-Gateway-Request-ID"))]

\* Variant of extractUserContext that looks at the identity headers before
\* the Authorization header.
extractUserContextClaimsFirst(r) ==
    LET authHeader == HeaderGet(r, "Authorization")
        userID     == HeaderGet(r, "X-User-ID")
        email      == HeaderGet(r, "X-User-Email")
    IN  IF userID = Empty \/ email = Empty
          THEN ExtractFailure(ErrMissingUserHeaders)
        ELSE IF authHeader = Empty
          THEN ExtractFailure(ErrMissingAuthorization)
        ELSE IF ~HasPrefix(authHeader, BearerPrefix)
          THEN ExtractFailure(ErrInvalidFormat)
        ELSE [ok   |-> TRUE,
              err  |-> "",
              user |-> UserContext(userID, email,
                                   HeaderGet(r, "X-User-Name"),
                                   HeaderGet(r, "X-Session-ID"),
                                   TrimPrefix(authHeader, BearerPrefix),
                                   HeaderGet(r, "X-Gateway-Request-ID"))]

\* Variant of extractUserContext that treats an empty raw credential after
\* "Bearer " as a malformed Authorization header.
extractUserContextRequireToken(r) ==
    LET authHeader == HeaderGet(r, "Authorization")
        token      == TrimPrefix(authHeader, BearerPrefix)
        userID     == HeaderGet(r, "X-User-ID")
        email      == HeaderGet(r, "X-User-Email")
    IN  IF authHeader = Empty
          THEN ExtractFailure(ErrMissingAuthorization)
        ELSE IF ~HasPrefix(authHeader, BearerPrefix) \/ token = Empty
          THEN ExtractFailure(ErrInvalidFormat)
        ELSE IF userID = Empty \/ email = Empty
          THEN ExtractFailure(ErrMissingUserHeaders)
        ELSE [ok   |-> TRUE,
              err  |-> "",
              user |-> UserContext(userID, email,
                                   HeaderGet(r, "X-User-Name"),
                                   HeaderGet(r, "X-Session-ID"),
                                   token,
                                   HeaderGet(r, "X-Gateway-Request-ID"))]

extractUserContext(r) ==
    LET authHeader == HeaderGet(r, "Authorization")
        token      == TrimPrefix(authHeader, BearerPrefix)
        userID     == HeaderGet(r, "X-User-ID")
        email      == HeaderGet(r, "X-User-Email")
        name       == HeaderGet(r, "X-User-Name")
        sessionID  == HeaderGet(r, "X-Session-ID")
        requestID  == HeaderGet(r, "X-Gateway-Request-ID")
    IN  IF authHeader = Empty
          THEN ExtractFailure(ErrMissingAuthorization)
        ELSE IF ~HasPrefix(authHeader, BearerPrefix)
          THEN ExtractFailure(ErrInvalidFormat)
        ELSE IF userID = Empty \/ email = Empty
          THEN ExtractFailure(ErrMissingUserHeaders)
        ELSE [ok   |-> TRUE,
              err  |-> "",
              user |-> UserContext(userID, email, name, sessionID, token,
                                   requestID)]

(***************************************************************************)
(* State.                                                                  *)
(***************************************************************************)
VARIABLES
    cfgBasePath,           \* cfg.BasePath
    allowUnauthenticated,  \* the policy flag passed to RunSSEServerWithSimpleAuth
    ctl,                   \* where the controller (RunSSEServerWithSimpleAuth) is
    result,                \* what RunSSEServerWithSimpleAuth returned
    ctxDone,               \* the signal.NotifyContext context is cancelled
    errC,                  \* the buffered channel errC
    lst,                   \* where the goroutine running ListenAndServe is
    lerr,                  \* the value ListenAndServe returned
    listener,              \* the TCP listener: "none", "open", "closed"
    inShutdown,            \* httpServer.Shutdown has been called
    conns,                 \* connection slot -> "free", "new", "active", "idle",
                           \*   "closed", "timeout" (cut at its write deadline)
    lateConn,              \* connection slot -> accepted after Shutdown was called
    cur,                   \* the exchanges in flight: request and response so far
    sigAt,                 \* where the controller was when the signal arrived
    kctx,                  \* a context.Context built by WithUserContext / WithValue
    kuser                  \* what was last attached to kctx by WithUserContext

vars == << cfgBasePath, allowUnauthenticated, ctl, result, ctxDone, errC, lst,
           lerr, listener, inShutdown, conns, lateConn, cur, sigAt, kctx,
           kuser >>

lifeVars == << ctl, result, ctxDone, errC, lst, lerr, listener, inShutdown >>

cfgVars == << cfgBasePath, allowUnauthenticated >>

ctxVars == << kctx, kuser >>

(***************************************************************************)
(* http.ResponseWriter, extended with a trace of the handlers entered      *)
(* (calls), of the request context each engine handler was given (seen)    *)
(* and of the log entries written while serving (log).                     *)
(***************************************************************************)
ResponseHeaderNames ==
    {"Content-Type", "Access-Control-Allow-Origin",
     "Access-Control-Allow-Methods", "Access-Control-Allow-Headers"}

NewResponseWriter ==
    [status |-> 0,
     header |-> [n \in ResponseHeaderNames |-> ""],
     body   |-> "",
     calls  |-> <<>>,
     seen   |-> <<>>,
     log    |-> <<>>]

\* w.Header().Set(name, value): no effect on the wire once the status is written
HeaderSet(w, name, value) ==
    IF w.status = 0 THEN [w EXCEPT !.header[name] = value] ELSE w

\* w.WriteHeader(code): the first call decides the status
WriteHeader(w, code) ==
    IF w.status = 0 THEN [w EXCEPT !.status = code] ELSE w

\* w.Write(b): implies WriteHeader(200) when no status was written
Write(w, b) ==
    LET w1 == WriteHeader(w, StatusOK)
    IN  [w1 EXCEPT !.body = @ \o b]

Enter(w, handler) == [w EXCEPT !.calls = Append(@, handler)]

\* logrus.WithFields(...).<Level>(msg); error is the "error" field, if any
Log(w, level, msg, error) ==
    [w EXCEPT !.log = Append(@, [level |-> level, msg |-> msg, error |-> error])]

(***************************************************************************)
(* The engine's handlers, sseServer.SSEHandler() and                       *)
(* sseServer.MessageHandler(): external; each answers with a status of its *)
(* own choosing (es) and sees the request context it is given.             *)
(***************************************************************************)
EngineHandlers == {"SSEHandler", "MessageHandler"}

EngineStatuses(handler) ==
    IF handler = "SSEHandler" THEN {200, 405} ELSE {202, 400}

EngineServeHTTP(handler, w, r, es) ==
    LET w1 == Enter(w, handler)
        w2 == [w1 EXCEPT !.seen = Append(@, r.ctx)]
    IN  WriteHeader(w2, es)

(***************************************************************************)
(* AuthenticationMiddleware / OptionalAuthenticationMiddleware             *)
(***************************************************************************)
UnauthorizedBody(msg) ==
    "{\"error\":\"authentication required\",\"message\":\"" \o msg \o "\"}"

\* the failure branch of AuthenticationMiddleware, up to its return
RejectUnauthorized(w, err) ==
    LET w1 == Log(w, "warn", "Authentication extraction failed", err)
        w2 == HeaderSet(w1, "Content-Type", "application/json")
        w3 == WriteHeader(w2, StatusUnauthorized)
    IN  Write(w3, UnauthorizedBody(err))

\* Variant of AuthenticationMiddleware whose failure branch lacks the return:
\* the 401 is written and the downstream handler runs all the same.
AuthenticationMiddlewareNoReturn(next, w, r, es) ==
    LET w0  == Log(Enter(w, "AuthenticationMiddleware"),
                   "debug", "Incoming request", "")
        ext == extractUserContext(r)
    IN  IF ~ext.ok
        THEN EngineServeHTTP(next, RejectUnauthorized(w0, ext.err), r, es)
        ELSE EngineServeHTTP(next,
                 Log(w0, "info", "Authenticated request", ""),
                 [r EXCEPT !.ctx = WithUserContext(r.ctx, ext.user)], es)

AuthenticationMiddleware(next, w, r, es) ==
    LET w0  == Log(Enter(w, "AuthenticationMiddleware"),
                   "debug", "Incoming request", "")
        ext == extractUserContext(r)
    IN  IF ~ext.ok
        THEN RejectUnauthorized(w0, ext.err)
        ELSE EngineServeHTTP(next,
                 Log(w0, "info", "Authenticated request", ""),
                 [r EXCEPT !.ctx = WithUserContext(r.ctx, ext.user)], es)

\* Variant of OptionalAuthenticationMiddleware that attaches the (nil) result
\* of a failed extraction instead of passing the request through untouched.
OptionalAuthenticationMiddlewareAttachNil(next, w, r, es) ==
    LET w0  == Enter(w, "OptionalAuthenticationMiddleware")
        ext == extractUserContext(r)
    IN  EngineServeHTTP(next,
            Log(w0, "debug", "Authenticated request", ""),
            [r EXCEPT !.ctx = WithUserContext(r.ctx, ext.user)], es)

OptionalAuthenticationMiddleware(next, w, r, es) ==
    LET w0  == Enter(w, "OptionalAuthenticationMiddleware")
        ext == extractUserContext(r)
    IN  IF ~ext.ok
        THEN EngineServeHTTP(next,
                 Log(w0, "debug",
                     "No authentication context, continuing without user context",
                     ext.err),
                 r, es)
        ELSE EngineServeHTTP(next,
                 Log(w0, "debug", "Authenticated request", ""),
                 [r EXCEPT !.ctx = WithUserContext(r.ctx, ext.user)], es)

\* authMiddleware, as chosen from allowUnauthenticated
authMiddleware(next, w, r, es) ==
    IF allowUnauthenticated
    THEN OptionalAuthenticationMiddleware(next, w, r, es)
    ELSE AuthenticationMiddleware(next, w, r, es)

(***************************************************************************)
(* The routes registered on the mux, and http.ServeMux dispatch            *)
(* (patterns without a trailing slash match the exact path only).          *)
(***************************************************************************)
Now == "2006-01-02T15:04:05Z07:00"

BoolText(b) == IF b THEN "true" ELSE "false"

healthHandler(w, r) ==
    LET w0 == Enter(w, "health")
        w1 == HeaderSet(w0, "Content-Type", "application/json")
        w2 == WriteHeader(w1, StatusOK)
    IN  Write(w2, "{\"status\":\"healthy\",\"timestamp\":\"" \o Now \o "\"}")

statusHandler(w, r) ==
    LET w0 == Enter(w, "status")
        w1 == HeaderSet(w0, "Content-Type", "application/json")
        w2 == WriteHeader(w1, StatusOK)
    IN  Write(w2, "{\"status\": \"running\", \"authentication_required\": "
                  \o BoolText(~allowUnauthenticated)
                  \o ", \"timestamp\": \"" \o Now \o "\"}")

\* http.NotFound, the mux's answer when no pattern matches
notFoundHandler(w, r) ==
    LET w0 == Enter(w, "NotFound")
        w1 == HeaderSet(w0, "Content-Type", "text/plain; charset=utf-8")
        w2 == WriteHeader(w1, 404)
    IN  Write(w2, "404 page not found\n")

SSEPattern == cfgBasePath \o "/sse"

MessagePattern == cfgBasePath \o "/message"

\* Variant of the route table in which the strict gate is put around the
\* whole mux instead of around the two engine routes.
muxServeHTTPGateAll(w, r, es) ==
    LET w0  == Enter(w, "mux")
        ext == extractUserContext(r)
    IN  IF ~allowUnauthenticated /\ ~ext.ok
          THEN RejectUnauthorized(w0, ext.err)
        ELSE IF r.path = "/health" THEN healthHandler(w0, r)
        ELSE IF r.path = "/status" THEN statusHandler(w0, r)
        ELSE IF r.path = SSEPattern THEN authMiddleware("SSEHandler", w0, r, es)
        ELSE IF r.path = MessagePattern
          THEN authMiddleware("MessageHandler", w0, r, es)
        ELSE notFoundHandler(w0, r)

\* Variant of the route table in which the message endpoint is registered
\* without authMiddleware around it.
muxServeHTTPBareMessage(w, r, es) ==
    LET w0 == Enter(w, "mux")
    IN  IF r.path = "/health" THEN healthHandler(w0, r)
        ELSE IF r.path = "/status" THEN statusHandler(w0, r)
        ELSE IF r.path = SSEPattern THEN authMiddleware("SSEHandler", w0, r, es)
        ELSE IF r.path = MessagePattern
          THEN EngineServeHTTP("MessageHandler", w0, r, es)
        ELSE notFoundHandler(w0, r)

muxServeHTTP(w, r, es) ==
    LET w0 == Enter(w, "mux")
    IN  IF r.path = "/health" THEN healthHandler(w0, r)
        ELSE IF r.path = "/status" THEN statusHandler(w0, r)
        ELSE IF r.path = SSEPattern THEN authMiddleware("SSEHandler", w0, r, es)
        ELSE IF r.path = MessagePattern
          THEN authMiddleware("MessageHandler", w0, r, es)
        ELSE notFoundHandler(w0, r)

\* the handler a path is routed to, for choosing the engine's answer
RoutedEngineHandler(path) ==
    IF path = SSEPattern THEN "SSEHandler"
    ELSE IF path = MessagePattern THEN "MessageHandler"
    ELSE "none"

(***************************************************************************)
(* addSimpleCORS                                                           *)
(***************************************************************************)
AllowMethodsValue == "GET, POST, PUT, DELETE, OPTIONS"

AllowHeadersValue ==
    "Authorization, Content-Type, X-User-ID, X-User-Email, X-User-Name, X-Session-ID, X-Gateway-Request-ID"

\* Variant of addSimpleCORS without the OPTIONS branch: a preflight request
\* is forwarded like any other.
addSimpleCORSNoPreflight(w, r, es) ==
    LET w0 == Enter(w, "addSimpleCORS")
        w1 == HeaderSet(w0, "Access-Control-Allow-Origin", "*")
        w2 == HeaderSet(w1, "Access-Control-Allow-Methods", AllowMethodsValue)
        w3 == HeaderSet(w2, "Access-Control-Allow-Headers", AllowHeadersValue)
    IN  muxServeHTTP(w3, r, es)

\* Variant of addSimpleCORS that sets its headers after the wrapped handler
\* has run, when the response header is already written.
addSimpleCORSHeadersLate(w, r, es) ==
    LET w0 == Enter(w, "addSimpleCORS")
        w1 == IF r.method = "OPTIONS"
              THEN WriteHeader(w0, StatusOK)
              ELSE muxServeHTTP(w0, r, es)
        w2 == HeaderSet(w1, "Access-Control-Allow-Origin", "*")
        w3 == HeaderSet(w2, "Access-Control-Allow-Methods", AllowMethodsValue)
    IN  HeaderSet(w3, "Access-Control-Allow-Headers", AllowHeadersValue)

addSimpleCORS(w, r, es) ==
    LET w0 == Enter(w, "addSimpleCORS")
        w1 == HeaderSet(w0, "Access-Control-Allow-Origin", "*")
        w2 == HeaderSet(w1, "Access-Control-Allow-Methods", AllowMethodsValue)
        w3 == HeaderSet(w2, "Access-Control-Allow-Headers", AllowHeadersValue)
    IN  IF r.method = "OPTIONS"
        THEN WriteHeader(w3, StatusOK)
        ELSE muxServeHTTP(w3, r, es)

\* httpServer.Handler = corsHandler, called with a fresh writer and the
\* server's base context
corsHandler(req, es) ==
    addSimpleCORS(NewResponseWriter, [req EXCEPT !.ctx = BaseContext], es)

(***************************************************************************)
(* The requests sent to the server.                                        *)
(***************************************************************************)
RequestHeaderNames ==
    {"Authorization", "X-User-ID", "X-User-Email", "X-User-Name",
     "X-Session-ID", "X-Gateway-Request-ID"}

Tokens == {[i \in 1..n |-> "t"] : n \in 0..MaxTokenLen}

AuthorizationValues ==
    {Empty,
     <<"B", "e", "a", "r", "e", "r">>,
     <<"T", "o", "k", "e", "n", " ", "a", "b", "c">>}
    \cup {BearerPrefix \o t : t \in Tokens}

MakeHeader(a, u, e, n, s, q) ==
    [h \in RequestHeaderNames |->
        CASE h = "Authorization"        -> a
          [] h = "X-User-ID"            -> u
          [] h = "X-User-Email"         -> e
          [] h = "X-User-Name"          -> n
          [] h = "X-Session-ID"         -> s
          [] h = "X-Gateway-Request-ID" -> q]

Headers ==
    {MakeHeader(a, u, e, n, s, q) :
        a \in AuthorizationValues,
        u \in {Empty, <<"u", "1">>},
        e \in {Empty, <<"a", "@", "b">>},
        n \in {Empty, <<"N">>},
        s \in {Empty, <<"s", "7">>},
        q \in {Empty, <<"q", "9">>}}

Methods == {"GET", "POST", "OPTIONS"}

\* BasePath in the SSEServerConfig that sseCmd builds
sseCmdBasePath == ""

\* the endpoints the deployment guide gives for the sse command
DocumentedSSEPath == "/github-mcp/sse"

DocumentedMessagePath == "/github-mcp/message"

BasePaths == {sseCmdBasePath, "/github-mcp"}

Paths ==
    {"/health", "/status", "/other"}
    \cup {b \o "/sse" : b \in BasePaths}
    \cup {b \o "/message" : b \in BasePaths}

Requests ==
    [method : Methods, path : Paths, header : Headers, ctx : {<<>>}]

\* a few requests of each kind, sent while the lifecycle is explored
ProbeHeaders ==
    {MakeHeader(Empty, Empty, Empty, Empty, Empty, Empty),
     MakeHeader(<<"T", "o", "k", "e", "n", " ", "a", "b", "c">>,
                <<"u", "1">>, <<"a", "@", "b">>, Empty, Empty, Empty),
     MakeHeader(BearerPrefix, <<"u", "1">>, <<"a", "@", "b">>,
                Empty, <<"s", "7">>, Empty)}

ProbeRequests ==
    [method : {"GET", "OPTIONS"},
     path   : {"/health", "/sse", "/github-mcp/message", "/other"},
     header : ProbeHeaders,
     ctx    : {<<>>}]

\* requests of two different callers and of callers without usable
\* credentials, sent on several connections at the same time
PairHeaders ==
    {MakeHeader(Empty, Empty, Empty, Empty, Empty, Empty),
     MakeHeader(BearerPrefix \o <<"t">>, <<"u", "1">>, Empty, <<"N">>, Empty,
                Empty),
     MakeHeader(BearerPrefix \o <<"t">>, <<"u", "1">>, <<"a", "@", "b">>,
                <<"N">>, Empty, Empty),
     MakeHeader(BearerPrefix, <<"u", "1">>, <<"a", "@", "b">>, Empty,
                <<"s", "7">>, Empty)}

PairRequests ==
    [method : {"GET"},
     path   : {"/sse", "/github-mcp/message"},
     header : PairHeaders,
     ctx    : {<<>>}]

\* the statuses the routed engine handler may answer a request with
\* (0 when the request is not routed to the engine)
EngineChoices(req) ==
    IF RoutedEngineHandler(req.path) \in EngineHandlers
    THEN EngineStatuses(RoutedEngineHandler(req.path))
    ELSE {0}

(***************************************************************************)
(* Connections.                                                            *)
(***************************************************************************)
Conns == 1..MaxConns

OpenStates == {"new", "active", "idle"}

\* the process exits when RunSSEServerWithSimpleAuth returns to main:
\* whatever is still open is cut
ProcessExit(cs) ==
    [c \in Conns |-> IF cs[c] \in OpenStates THEN "closed" ELSE cs[c]]

Alive == ctl # "returned"

\* the controller waits in its select and the listener accepts connections
Running == ctl = "select" /\ lst = "accept" /\ listener = "open"

(***************************************************************************)
(* Serving one request on a connection: the whole handler chain            *)
(* addSimpleCORS -> mux -> gate -> engine runs on the connection's own     *)
(* goroutine and shares no state with any other.                           *)
(***************************************************************************)
\* one exchange in flight; age is the time since its request was read, which
\* is when net/http arms the connection's write deadline
Exchange(c, req, w) == [conn |-> c, req |-> req, w |-> w, age |-> 0]

\* the exchanges in flight without the i-th
Without(i) == SubSeq(cur, 1, i - 1) \o SubSeq(cur, i + 1, Len(cur))

\* the position of connection c's exchange in cur (0: none in flight)
InFlight(c) ==
    IF \E i \in DOMAIN cur : cur[i].conn = c
    THEN CHOOSE i \in DOMAIN cur : cur[i].conn = c
    ELSE 0

\* Variant of Handle: the gate keeps the last request it looked at in a
\* variable shared by all requests, and a request whose own extraction fails
\* is served with the headers of the oldest exchange still in flight.
HandleSharedIdentity(c, req, es) ==
    /\ Alive
    /\ conns[c] \in {"new", "idle"}
    /\ es \in EngineChoices(req)
    /\ cur' = Append(cur,
                     Exchange(c, req,
                              corsHandler(IF cur # <<>> /\ ~extractUserContext(req).ok
                                          THEN [req EXCEPT !.header = cur[1].req.header]
                                          ELSE req,
                                          es)))
    /\ conns' = [conns EXCEPT ![c] = "active"]
    /\ UNCHANGED << cfgVars, ctxVars, sigAt, lifeVars, lateConn >>

\* Variant of Handle: a request whose extraction fails is reported to the
\* controller as a server error on errC.
HandleEscalating(c, req, es) ==
    /\ Alive
    /\ conns[c] \in {"new", "idle"}
    /\ es \in EngineChoices(req)
    /\ cur' = Append(cur, Exchange(c, req, corsHandler(req, es)))
    /\ conns' = [conns EXCEPT ![c] = "active"]
    /\ errC' = IF extractUserContext(req).ok \/ errC # <<>>
               THEN errC
               ELSE << extractUserContext(req).err >>
    /\ UNCHANGED << cfgVars, ctxVars, sigAt, ctl, result, ctxDone, lst, lerr,
                    listener, inShutdown, lateConn >>

Handle(c, req, es) ==
    /\ Alive
    /\ conns[c] \in {"new", "idle"}
    /\ es \in EngineChoices(req)
    /\ cur' = Append(cur, Exchange(c, req, corsHandler(req, es)))
    /\ conns' = [conns EXCEPT ![c] = "active"]
    /\ UNCHANGED << cfgVars, ctxVars, sigAt, lifeVars, lateConn >>

\* connection c is sent one of the requests reqs and the server serves it
Serve(c, reqs) ==
    /\ cur = <<>>
    /\ \E req \in reqs : \E es \in EngineChoices(req) : Handle(c, req, es)

\* connection c is sent one of the requests reqs while other connections may
\* have a request in flight: net/http serves each connection on a goroutine
\* of its own
ServeConcurrently(c, reqs) ==
    \E req \in reqs : \E es \in EngineChoices(req) : Handle(c, req, es)

\* the handler returned and the response is flushed; during shutdown the
\* server closes the connection instead of keeping it alive
Complete(i) ==
    /\ Alive
    /\ i \in DOMAIN cur
    /\ conns' = [conns EXCEPT
                    ![cur[i].conn] = IF inShutdown THEN "closed" ELSE "idle"]
    /\ cur' = Without(i)
    /\ UNCHANGED << cfgVars, ctxVars, sigAt, lifeVars, lateConn >>

\* time passes for the exchanges in flight (counted up to WriteTimeout)
Tick ==
    /\ Alive
    /\ \E i \in DOMAIN cur : cur[i].age < WriteTimeout
    /\ cur' = [i \in DOMAIN cur |->
                  [cur[i] EXCEPT !.age = IF @ + TickSeconds < WriteTimeout
                                         THEN @ + TickSeconds
                                         ELSE WriteTimeout]]
    /\ UNCHANGED << cfgVars, ctxVars, sigAt, lifeVars, conns, lateConn >>

\* the response of exchange i is still being written when the connection's
\* write deadline (request read + WriteTimeout) passes: the write fails and
\* the server drops the connection
WriteDeadline(i) ==
    /\ Alive
    /\ i \in DOMAIN cur
    /\ cur[i].age >= WriteTimeout
    /\ conns' = [conns EXCEPT ![cur[i].conn] = "timeout"]
    /\ cur' = Without(i)
    /\ UNCHANGED << cfgVars, ctxVars, sigAt, lifeVars, lateConn >>

\* the client closes its connection
ClientClose(c) ==
    /\ Alive
    /\ conns[c] \in OpenStates
    /\ conns' = [conns EXCEPT ![c] = "closed"]
    /\ cur' = IF InFlight(c) = 0 THEN cur ELSE Without(InFlight(c))
    /\ UNCHANGED << cfgVars, ctxVars, sigAt, lifeVars, lateConn >>

(***************************************************************************)
(* RunSSEServerWithSimpleAuth: the controller.                             *)
(*   ctl: "start" -> "logfile" -> "listen" -> "select" -> "shutdown"       *)
(*        -> "draining" -> "returned"                                      *)
(***************************************************************************)
ErrServerClosed == "http: Server closed"

ErrBind == "listen tcp: address already in use"

ErrAccept == "accept tcp: too many open files"

ErrDeadline == "context deadline exceeded"

Return(value) ==
    /\ ctl' = "returned"
    /\ result' = value
    /\ conns' = ProcessExit(conns)
    /\ cur' = <<>>

\* SIGINT / SIGTERM delivered after signal.NotifyContext was installed
Signal ==
    /\ Alive
    /\ ~ctxDone
    /\ ctxDone' = TRUE
    /\ sigAt' = (IF Running THEN "running" ELSE ctl)
    /\ UNCHANGED << cfgVars, ctxVars, ctl, result, errC, lst, lerr, listener,
                    inShutdown, conns, lateConn, cur >>

\* ghServer, err := NewMCPServer(...)
CreateMCPServer ==
    /\ ctl = "start"
    /\ \/ /\ ctl' = "logfile"
          /\ UNCHANGED << result, conns, cur >>
       \/ Return("failed to create MCP server")
    /\ UNCHANGED << cfgVars, ctxVars, sigAt, ctxDone, errC, lst, lerr, listener, inShutdown,
                    lateConn >>

\* os.OpenFile(cfg.LogFilePath, ...) when a log file is configured
OpenLogFile ==
    /\ ctl = "logfile"
    /\ \/ /\ ctl' = "listen"
          /\ UNCHANGED << result, conns, cur >>
       \/ Return("failed to open log file")
    /\ UNCHANGED << cfgVars, ctxVars, sigAt, ctxDone, errC, lst, lerr, listener, inShutdown,
                    lateConn >>

\* errC := make(chan error, 1); go func() { errC <- ListenAndServe() }()
StartListener ==
    /\ ctl = "listen"
    /\ ctl' = "select"
    /\ lst' = "spawned"
    /\ UNCHANGED << cfgVars, ctxVars, sigAt, result, ctxDone, errC, lerr, listener,
                    inShutdown, conns, lateConn, cur >>

\* select: case <-ctx.Done()
SelectDone ==
    /\ ctl = "select"
    /\ ctxDone
    /\ ctl' = "shutdown"
    /\ UNCHANGED << cfgVars, ctxVars, sigAt, result, ctxDone, errC, lst, lerr, listener,
                    inShutdown, conns, lateConn, cur >>

\* whether the error branch of the select returns at once
IsFatal(err) == err # "nil" /\ err # ErrServerClosed

\* select: case err := <-errC
SelectErr ==
    /\ ctl = "select"
    /\ errC # <<>>
    /\ errC' = Tail(errC)
    /\ IF IsFatal(Head(errC))
       THEN Return("error running server: " \o Head(errC))
       ELSE /\ ctl' = "shutdown"
            /\ UNCHANGED << result, conns, cur >>
    /\ UNCHANGED << cfgVars, ctxVars, sigAt, ctxDone, lst, lerr, listener, inShutdown,
                    lateConn >>

\* Variant of ShutdownListener: the listener is left as it is (the controller
\* only waits, without making the server stop accepting).
ShutdownListenerLeftOpen(l) == l

\* what httpServer.Shutdown does to the listener when it is called
ShutdownListener(l) == IF l = "open" THEN "closed" ELSE l

\* httpServer.Shutdown(shutdownCtx) is called: the server is marked as
\* shutting down, its listener is closed and its idle connections are closed
ShutdownCall ==
    /\ ctl = "shutdown"
    /\ ctl' = "draining"
    /\ inShutdown' = TRUE
    /\ listener' = ShutdownListener(listener)
    /\ conns' = [c \in Conns |-> IF conns[c] = "idle" THEN "closed" ELSE conns[c]]
    /\ UNCHANGED << cfgVars, ctxVars, sigAt, result, ctxDone, errC, lst, lerr, lateConn, cur >>

Quiescent == \A c \in Conns : conns[c] \notin OpenStates

\* Shutdown returns nil once every connection is closed
ShutdownReturn ==
    /\ ctl = "draining"
    /\ Quiescent
    /\ Return("nil")
    /\ UNCHANGED << cfgVars, ctxVars, sigAt, ctxDone, errC, lst, lerr, listener, inShutdown,
                    lateConn >>

\* Variant of ShutdownDeadline: when the budget runs out the controller
\* returns as if the drain had completed.
ShutdownDeadlineSwallowed ==
    /\ ctl = "draining"
    /\ ~Quiescent
    /\ Return("nil")
    /\ UNCHANGED << cfgVars, ctxVars, sigAt, ctxDone, errC, lst, lerr, listener,
                    inShutdown, lateConn >>

\* the 30-second shutdownCtx expires first: Shutdown returns its error
ShutdownDeadline ==
    /\ ctl = "draining"
    /\ ~Quiescent
    /\ Return(ErrDeadline)
    /\ UNCHANGED << cfgVars, ctxVars, sigAt, ctxDone, errC, lst, lerr, listener, inShutdown,
                    lateConn >>

(***************************************************************************)
(* The goroutine of httpServer.ListenAndServe().                           *)
(*   lst: "unstarted" -> "spawned" -> "bind" -> "track" -> "accept"        *)
(*        -> "send" -> "done"                                              *)
(***************************************************************************)
\* ListenAndServe first refuses to start on a server that is shutting down
ListenEnter ==
    /\ Alive
    /\ lst = "spawned"
    /\ IF inShutdown
       THEN lst' = "send" /\ lerr' = ErrServerClosed
       ELSE lst' = "bind" /\ UNCHANGED lerr
    /\ UNCHANGED << cfgVars, ctxVars, sigAt, ctl, result, ctxDone, errC, listener,
                    inShutdown, conns, lateConn, cur >>

\* net.Listen("tcp", cfg.ListenAddr)
ListenBind ==
    /\ Alive
    /\ lst = "bind"
    /\ \/ lst' = "track" /\ listener' = "open" /\ UNCHANGED lerr
       \/ lst' = "send" /\ lerr' = ErrBind /\ UNCHANGED listener
    /\ UNCHANGED << cfgVars, ctxVars, sigAt, ctl, result, ctxDone, errC, inShutdown, conns,
                    lateConn, cur >>

\* Serve registers the listener unless Shutdown was called meanwhile
ListenTrack ==
    /\ Alive
    /\ lst = "track"
    /\ IF inShutdown
       THEN lst' = "send" /\ lerr' = ErrServerClosed /\ listener' = "closed"
       ELSE lst' = "accept" /\ UNCHANGED << lerr, listener >>
    /\ UNCHANGED << cfgVars, ctxVars, sigAt, ctl, result, ctxDone, errC, inShutdown, conns,
                    lateConn, cur >>

\* the accept loop takes a new connection
Accept(c) ==
    /\ Alive
    /\ lst = "accept"
    /\ listener = "open"
    /\ conns[c] = "free"
    /\ conns' = [conns EXCEPT ![c] = "new"]
    /\ lateConn' = [lateConn EXCEPT ![c] = inShutdown]
    /\ UNCHANGED << cfgVars, ctxVars, sigAt, lifeVars, cur >>

\* the accept loop fails on an open listener: Serve returns that error
AcceptError ==
    /\ Alive
    /\ lst = "accept"
    /\ listener = "open"
    /\ lst' = "send"
    /\ lerr' = ErrAccept
    /\ listener' = "closed"
    /\ UNCHANGED << cfgVars, ctxVars, sigAt, ctl, result, ctxDone, errC, inShutdown, conns,
                    lateConn, cur >>

\* the accept loop finds the listener closed by Shutdown
AcceptClosed ==
    /\ Alive
    /\ lst = "accept"
    /\ listener = "closed"
    /\ lst' = "send"
    /\ lerr' = ErrServerClosed
    /\ UNCHANGED << cfgVars, ctxVars, sigAt, ctl, result, ctxDone, errC, listener,
                    inShutdown, conns, lateConn, cur >>

\* Variant of SendErr: the goroutine reports in a loop, so after a send it
\* is about to send again.
SendErrRepeated ==
    /\ Alive
    /\ lst = "send"
    /\ Len(errC) < ErrCCap
    /\ errC' = Append(errC, lerr)
    /\ UNCHANGED << cfgVars, ctxVars, sigAt, ctl, result, ctxDone, lst, lerr,
                    listener, inShutdown, conns, lateConn, cur >>

\* errC <- (the value ListenAndServe returned)
SendErr ==
    /\ Alive
    /\ lst = "send"
    /\ Len(errC) < ErrCCap
    /\ errC' = Append(errC, lerr)
    /\ lst' = "done"
    /\ UNCHANGED << cfgVars, ctxVars, sigAt, ctl, result, ctxDone, lerr, listener,
                    inShutdown, conns, lateConn, cur >>

(***************************************************************************)
(* Specifications.                                                         *)
(***************************************************************************)
\* the state when RunSSEServerWithSimpleAuth has installed the signal context
Init ==
    /\ cfgBasePath \in BasePaths
    /\ allowUnauthenticated \in BOOLEAN
    /\ ctl = "start"
    /\ result = "none"
    /\ ctxDone = FALSE
    /\ errC = <<>>
    /\ lst = "unstarted"
    /\ lerr = "none"
    /\ listener = "none"
    /\ inShutdown = FALSE
    /\ conns = [c \in Conns |-> "free"]
    /\ lateConn = [c \in Conns |-> FALSE]
    /\ cur = <<>>
    /\ sigAt = "none"
    /\ kctx = BaseContext
    /\ kuser = [user |-> NilUser, ok |-> FALSE]

Next ==
    \/ Signal
    \/ CreateMCPServer
    \/ OpenLogFile
    \/ StartListener
    \/ SelectDone
    \/ SelectErr
    \/ ShutdownCall
    \/ ShutdownReturn
    \/ ShutdownDeadline
    \/ ListenEnter
    \/ ListenBind
    \/ ListenTrack
    \/ \E c \in Conns : Accept(c)
    \/ AcceptError
    \/ AcceptClosed
    \/ SendErr
    \/ \E c \in Conns : Serve(c, ProbeRequests)
    \/ \E i \in DOMAIN cur : Complete(i)
    \/ \E c \in Conns : ClientClose(c)

Spec == Init /\ [][Next]_vars

\* the steps of RunSSEServerWithSimpleAuth's own goroutine
ControllerMove ==
    \/ CreateMCPServer
    \/ OpenLogFile
    \/ StartListener
    \/ SelectDone
    \/ SelectErr
    \/ ShutdownCall
    \/ ShutdownReturn
    \/ ShutdownDeadline

\* the controller's goroutine is scheduled whenever it can run, and the
\* shutdown budget is a timer that does expire; clients, signals and the
\* listener goroutine are under no obligation
SpecFair == Spec /\ WF_vars(ControllerMove)

\* as SpecFair, and the listener goroutine is scheduled when its send on errC
\* can proceed
SpecFairListener == Spec /\ WF_vars(ControllerMove) /\ WF_vars(SendErr)

\* the server is running, one connection is accepted and nothing else moves:
\* every request of Requests is put through the handler chain
InitServing ==
    /\ cfgBasePath \in BasePaths
    /\ allowUnauthenticated \in BOOLEAN
    /\ ctl = "select"
    /\ result = "none"
    /\ ctxDone = FALSE
    /\ errC = <<>>
    /\ lst = "accept"
    /\ lerr = "none"
    /\ listener = "open"
    /\ inShutdown = FALSE
    /\ conns = [c \in Conns |-> IF c = 1 THEN "new" ELSE "free"]
    /\ lateConn = [c \in Conns |-> FALSE]
    /\ cur = <<>>
    /\ sigAt = "none"
    /\ kctx = BaseContext
    /\ kuser = [user |-> NilUser, ok |-> FALSE]

NextServing ==
    \/ Serve(1, Requests)
    \/ \E i \in DOMAIN cur : Complete(i)

SpecServing == InitServing /\ [][NextServing]_vars

\* the server is running and every connection slot holds a client; the
\* clients send their requests without waiting for one another
InitPair ==
    /\ cfgBasePath \in BasePaths
    /\ allowUnauthenticated \in BOOLEAN
    /\ ctl = "select"
    /\ result = "none"
    /\ ctxDone = FALSE
    /\ errC = <<>>
    /\ lst = "accept"
    /\ lerr = "none"
    /\ listener = "open"
    /\ inShutdown = FALSE
    /\ conns = [c \in Conns |-> "new"]
    /\ lateConn = [c \in Conns |-> FALSE]
    /\ cur = <<>>
    /\ sigAt = "none"
    /\ kctx = BaseContext
    /\ kuser = [user |-> NilUser, ok |-> FALSE]

NextPair ==
    \/ \E c \in Conns : ServeConcurrently(c, PairRequests)
    \/ \E i \in DOMAIN cur : Complete(i)

SpecPair == InitPair /\ [][NextPair]_vars

\* the server is running with one client connected, and time passes while
\* its responses are written
NextStream ==
    \/ Serve(1, ProbeRequests)
    \/ \E i \in DOMAIN cur : Complete(i)
    \/ Tick
    \/ \E i \in DOMAIN cur : WriteDeadline(i)
    \/ \E c \in Conns : ClientClose(c)

SpecStream == InitServing /\ [][NextStream]_vars

\* the records attached to generated contexts (nil included)
CtxUsers ==
    {NilUser,
     UserContext(<<"u", "1">>, <<"a", "@", "b">>, Empty, Empty, <<"t">>, Empty),
     UserContext(<<"u", "2">>, <<"c", "@", "d">>, <<"N">>, Empty, Empty, Empty)}

\* keys other code stores values under: a plain string with the same text as
\* userContextKey, a string of another text, and net/http's own key
OtherKeys ==
    {[type |-> "string", name |-> "user_context"],
     [type |-> "string", name |-> "request_id"],
     [type |-> "http.contextKey", name |-> "http-server"]}

OtherValues ==
    {UserContext(<<"u", "9">>, <<"x", "@", "y">>, Empty, Empty, Empty, Empty),
     [server |-> "httpServer"]}

\* ctx = WithUserContext(ctx, userCtx)
AttachUser(userCtx) ==
    /\ Len(kctx) < MaxCtxDepth
    /\ kctx' = WithUserContext(kctx, userCtx)
    /\ kuser' = [user |-> userCtx, ok |-> TRUE]
    /\ UNCHANGED << cfgVars, sigAt, lifeVars, conns, lateConn, cur >>

\* ctx = context.WithValue(ctx, key, val) by code that cannot name contextKey
WithOtherValue(key, val) ==
    /\ Len(kctx) < MaxCtxDepth
    /\ kctx' = Append(kctx, [key |-> key, val |-> val])
    /\ UNCHANGED << cfgVars, sigAt, lifeVars, conns, lateConn, cur, kuser >>

NextCtx ==
    \/ \E userCtx \in CtxUsers : AttachUser(userCtx)
    \/ \E key \in OtherKeys, val \in OtherValues : WithOtherValue(key, val)

SpecCtx == Init /\ [][NextCtx]_vars

(***************************************************************************)
(* Properties.  What a request's headers should lead to is restated here   *)
(* from the header values alone, character by character, and compared with *)
(* what the handler chain did.                                             *)
(***************************************************************************)
Called(w, handler) == \E i \in DOMAIN w.calls : w.calls[i] = handler

EngineCalls(w) == {i \in DOMAIN w.calls : w.calls[i] \in EngineHandlers}

GateCalled(w) ==
    \/ Called(w, "AuthenticationMiddleware")
    \/ Called(w, "OptionalAuthenticationMiddleware")

StartsWithBearer(a) ==
    /\ Len(a) >= 7
    /\ a[1] = "B" /\ a[2] = "e" /\ a[3] = "a" /\ a[4] = "r"
    /\ a[5] = "e" /\ a[6] = "r" /\ a[7] = " "

AfterBearer(a) == [i \in 1..(Len(a) - 7) |-> a[i + 7]]

Extractable(h) ==
    /\ StartsWithBearer(h["Authorization"])
    /\ Len(h["X-User-ID"]) > 0
    /\ Len(h["X-User-Email"]) > 0

ExpectedReason(h) ==
    IF Len(h["Authorization"]) = 0 THEN "missing Authorization header"
    ELSE IF ~StartsWithBearer(h["Authorization"])
      THEN "invalid Authorization header format"
    ELSE "missing required user context headers (X-User-ID or X-User-Email)"

\* C1: whenever the strict gate serves a request whose extraction fails
\* (Authorization absent or not starting with "Bearer ", or X-User-ID or
\* X-User-Email empty), the response is 401 with the JSON body
\* {"error":"authentication required","message":"<failure reason>"} and no
\* downstream (engine) handler is invoked.
C1_StrictGateRejects ==
    \A i \in DOMAIN cur :
        LET w == cur[i].w
            h == cur[i].req.header
        IN  (Called(w, "AuthenticationMiddleware") /\ ~Extractable(h)) =>
                /\ w.status = 401
                /\ w.body = "{\"error\":\"authentication required\",\"message\":\""
                            \o ExpectedReason(h) \o "\"}"
                /\ w.header["Content-Type"] = "application/json"
                /\ EngineCalls(w) = {}
                /\ w.seen = <<>>

C1_Witness ==
    \E i \in DOMAIN cur :
        /\ Called(cur[i].w, "AuthenticationMiddleware")
        /\ StartsWithBearer(cur[i].req.header["Authorization"])
        /\ cur[i].req.header["X-User-Email"] = <<>>
        /\ cur[i].w.status = 401

\* C2: under the strict policy, through the full chain, an engine handler is
\* invoked only for a request whose extraction succeeds, only after the
\* strict gate was entered, and the context it is given carries an identity.
C2_StrictEngineOnlyAuthenticated ==
    \A i \in DOMAIN cur :
        LET w == cur[i].w
        IN  (~allowUnauthenticated /\ EngineCalls(w) # {}) =>
                /\ Extractable(cur[i].req.header)
                /\ \A j \in EngineCalls(w) :
                       \E k \in 1..(j - 1) :
                           w.calls[k] = "AuthenticationMiddleware"
                /\ Len(w.seen) = Cardinality(EngineCalls(w))
                /\ \A j \in DOMAIN w.seen : GetUserContext(w.seen[j]).ok

C2_Witness ==
    \E i \in DOMAIN cur :
        /\ ~allowUnauthenticated
        /\ Called(cur[i].w, "MessageHandler")
        /\ cur[i].req.method = "POST"
        /\ GetUserContext(cur[i].w.seen[1]).ok

\* C3: the optional gate invokes the downstream handler exactly once for
\* every request and writes nothing itself (no 401, no body); when the
\* extraction fails the downstream handler's context holds no identity.
C3_OptionalGatePassesThrough ==
    \A i \in DOMAIN cur :
        LET w == cur[i].w
        IN  Called(w, "OptionalAuthenticationMiddleware") =>
                /\ Cardinality(EngineCalls(w)) = 1
                /\ Len(w.seen) = 1
                /\ w.status # 401
                /\ w.body = ""
                /\ ~Extractable(cur[i].req.header) =>
                       GetUserContext(w.seen[1]) = [user |-> NilUser, ok |-> FALSE]

C3_Witness ==
    \E i \in DOMAIN cur :
        /\ Called(cur[i].w, "OptionalAuthenticationMiddleware")
        /\ cur[i].req.header["Authorization"] = <<>>
        /\ Called(cur[i].w, "SSEHandler")
        /\ ~GetUserContext(cur[i].w.seen[1]).ok

\* C4: in both gates, a request with a "Bearer "-prefixed Authorization and
\* non-empty X-User-ID and X-User-Email reaches the downstream handler with
\* the identity already attached: the handler's lookup gives (record, true),
\* each field equal to its header and Token equal to the Authorization value
\* without its first seven characters.
C4_IdentityAttachedBeforeDownstream ==
    \A i \in DOMAIN cur :
        LET w == cur[i].w
            h == cur[i].req.header
        IN  (GateCalled(w) /\ Extractable(h)) =>
                /\ Len(w.seen) = 1
                /\ GetUserContext(w.seen[1]) =
                       [user |-> [UserID    |-> h["X-User-ID"],
                                  Email     |-> h["X-User-Email"],
                                  Name      |-> h["X-User-Name"],
                                  SessionID |-> h["X-Session-ID"],
                                  RequestID |-> h["X-Gateway-Request-ID"],
                                  Token     |-> AfterBearer(h["Authorization"])],
                        ok   |-> TRUE]

C4_Witness ==
    \E i \in DOMAIN cur :
        /\ Called(cur[i].w, "AuthenticationMiddleware")
        /\ Extractable(cur[i].req.header)
        /\ Len(cur[i].req.header["Authorization"]) > 7
        /\ Len(cur[i].req.header["X-User-Name"]) > 0
        /\ Len(cur[i].req.header["X-Session-ID"]) > 0
        /\ Len(cur[i].req.header["X-Gateway-Request-ID"]) = 0
        /\ GetUserContext(cur[i].w.seen[1]).ok

\* C5: every context a downstream handler is given holds either no identity
\* or a record with non-empty UserID and Email whose Token comes from a
\* present "Bearer "-prefixed Authorization header; a request with a valid
\* credential but an empty X-User-ID or X-User-Email yields no record at all.
C5_RecordAbsentOrComplete ==
    \A i \in DOMAIN cur :
        LET w == cur[i].w
            h == cur[i].req.header
        IN  \A j \in DOMAIN w.seen :
                LET got == GetUserContext(w.seen[j])
                IN  /\ got.ok =>
                           /\ DOMAIN got.user =
                                  {"UserID", "Email", "Name", "SessionID",
                                   "Token", "RequestID"}
                           /\ Len(got.user.UserID) > 0
                           /\ Len(got.user.Email) > 0
                           /\ StartsWithBearer(h["Authorization"])
                           /\ got.user.Token = AfterBearer(h["Authorization"])
                    /\ (Len(h["X-User-ID"]) = 0 \/ Len(h["X-User-Email"]) = 0) =>
                           got = [user |-> NilUser, ok |-> FALSE]

C5_Witness ==
    \E i \in DOMAIN cur :
        /\ Called(cur[i].w, "OptionalAuthenticationMiddleware")
        /\ StartsWithBearer(cur[i].req.header["Authorization"])
        /\ Len(cur[i].req.header["X-User-ID"]) > 0
        /\ Len(cur[i].req.header["X-User-Email"]) = 0
        /\ Len(cur[i].w.seen) = 1
        /\ ~GetUserContext(cur[i].w.seen[1]).ok

\* the failure reasons a gate logged while serving
LoggedErrors(w) == {w.log[k].error : k \in DOMAIN w.log} \ {""}

\* C6: the failure of an extraction is classified in a fixed order: an empty
\* Authorization gives the missing-credential reason whatever the other
\* headers are; a non-empty Authorization without the "Bearer " prefix gives
\* the malformed-credential reason whatever the identity headers are; only
\* then does an empty X-User-ID or X-User-Email give the missing-claims
\* reason; X-User-Name, X-Session-ID and X-Gateway-Request-ID never matter.
C6_FailureClassification ==
    \A i \in DOMAIN cur :
        LET w == cur[i].w
            h == cur[i].req.header
            a == h["Authorization"]
        IN  GateCalled(w) =>
                /\ Len(a) = 0 =>
                       LoggedErrors(w) = {"missing Authorization header"}
                /\ (Len(a) > 0 /\ ~StartsWithBearer(a)) =>
                       LoggedErrors(w) = {"invalid Authorization header format"}
                /\ (StartsWithBearer(a) /\
                      (Len(h["X-User-ID"]) = 0 \/ Len(h["X-User-Email"]) = 0)) =>
                       LoggedErrors(w) =
                           {"missing required user context headers (X-User-ID or X-User-Email)"}
                /\ (StartsWithBearer(a) /\ Len(h["X-User-ID"]) > 0
                      /\ Len(h["X-User-Email"]) > 0) =>
                       LoggedErrors(w) = {}

C6_Witness ==
    \E i \in DOMAIN cur :
        /\ GateCalled(cur[i].w)
        /\ cur[i].req.header["Authorization"] =
               <<"T", "o", "k", "e", "n", " ", "a", "b", "c">>
        /\ Len(cur[i].req.header["X-User-ID"]) = 0
        /\ LoggedErrors(cur[i].w) = {"invalid Authorization header format"}

\* C7: GET /health and GET /status are answered 200 through the full chain
\* whatever the authentication headers and the policy are, and neither gate
\* (nor the engine) is entered for them.
C7_HealthAndStatusOpen ==
    \A i \in DOMAIN cur :
        LET w == cur[i].w
            r == cur[i].req
        IN  (r.method = "GET" /\ r.path \in {"/health", "/status"}) =>
                /\ w.status = 200
                /\ ~GateCalled(w)
                /\ EngineCalls(w) = {}
                /\ w.log = <<>>
                /\ w.calls \in {<<"addSimpleCORS", "mux", "health">>,
                                <<"addSimpleCORS", "mux", "status">>}

C7_Witness ==
    \E i \in DOMAIN cur :
        /\ ~allowUnauthenticated
        /\ cur[i].req.method = "GET"
        /\ cur[i].req.path = "/status"
        /\ cur[i].req.header["Authorization"] = <<"B", "e", "a", "r", "e", "r">>
        /\ cur[i].w.status = 200

RECURSIVE JoinComma(_)
JoinComma(names) ==
    IF Len(names) = 0 THEN ""
    ELSE IF Len(names) = 1 THEN names[1]
    ELSE names[1] \o ", " \o JoinComma(Tail(names))

\* C8: an OPTIONS request to any path is answered 200 by addSimpleCORS alone
\* (the mux, the gates and the engine are not entered), and its
\* Access-Control-Allow-Headers lists exactly Authorization, Content-Type,
\* X-User-ID, X-User-Email, X-User-Name, X-Session-ID, X-Gateway-Request-ID.
C8_PreflightAnsweredByCORS ==
    \A i \in DOMAIN cur :
        LET w == cur[i].w
        IN  cur[i].req.method = "OPTIONS" =>
                /\ w.status = 200
                /\ w.calls = <<"addSimpleCORS">>
                /\ w.seen = <<>>
                /\ w.body = ""
                /\ w.header["Access-Control-Allow-Headers"] =
                       JoinComma(<<"Authorization", "Content-Type", "X-User-ID",
                                   "X-User-Email", "X-User-Name", "X-Session-ID",
                                   "X-Gateway-Request-ID">>)

C8_Witness ==
    \E i \in DOMAIN cur :
        /\ ~allowUnauthenticated
        /\ cur[i].req.method = "OPTIONS"
        /\ cur[i].req.path = SSEPattern
        /\ cur[i].req.header["Authorization"] = <<>>
        /\ cur[i].w.status = 200

\* C9: every response of the handler chain, whatever its outcome, carries
\* the three CORS headers: origin "*", methods GET, POST, PUT, DELETE,
\* OPTIONS, and the allow-headers list.
C9_CORSHeadersOnEveryResponse ==
    \A i \in DOMAIN cur :
        LET w == cur[i].w
        IN  /\ w.status # 0
            /\ w.header["Access-Control-Allow-Origin"] = "*"
            /\ w.header["Access-Control-Allow-Methods"] =
                   JoinComma(<<"GET", "POST", "PUT", "DELETE", "OPTIONS">>)
            /\ w.header["Access-Control-Allow-Headers"] =
                   JoinComma(<<"Authorization", "Content-Type", "X-User-ID",
                               "X-User-Email", "X-User-Name", "X-Session-ID",
                               "X-Gateway-Request-ID">>)

C9_Witness ==
    \E i \in DOMAIN cur :
        /\ cur[i].w.status = 401
        /\ Called(cur[i].w, "AuthenticationMiddleware")
        /\ cur[i].w.header["Access-Control-Allow-Origin"] = "*"

\* C10: once Shutdown has been called no connection is accepted any more
\* (no free slot is filled, and no connection was ever accepted during a
\* shutdown), and the call itself does not close the connections that are
\* new or serving a request at that moment.
C10_NoAcceptOnceDraining ==
    /\ [](\A c \in Conns : ~lateConn[c])
    /\ [][ /\ inShutdown =>
                 \A c \in Conns : conns[c] = "free" => conns'[c] = "free"
           /\ (~inShutdown /\ inShutdown') =>
                 \A c \in Conns :
                     conns[c] \in {"new", "active"} => conns'[c] = conns[c]
         ]_vars

C10_Witness ==
    /\ ctl = "draining"
    /\ inShutdown
    /\ listener = "closed"
    /\ lst = "accept"
    /\ \E c \in Conns : conns[c] = "active"
    /\ \E c \in Conns : conns[c] = "free"

\* C11: every way out of Running passes through Draining:
\* RunSSEServerWithSimpleAuth returns while connections are still open only
\* from the drain (when its budget has run out), after a signal and after a
\* fatal listener error alike.
C11_EveryExitDrains ==
    [][ (ctl # "returned" /\ ctl' = "returned"
           /\ \E c \in Conns : conns[c] \in OpenStates)
        => (ctl = "draining" /\ inShutdown) ]_vars

\* C12: when the controller leaves the select while a fatal listener error
\* waits on errC (also when the signal context is cancelled as well), it
\* returns an error carrying that failure.
C12_ListenerFailureReachesCaller ==
    [][ (ctl = "select" /\ ctl' # "select"
           /\ errC # <<>> /\ Head(errC) \in {ErrBind, ErrAccept})
        => (ctl' = "returned"
              /\ result' = "error running server: " \o Head(errC)) ]_vars

\* C13: a failure during Starting (engine construction, log file, listener
\* bind) aborts the start: no connection is ever accepted, no request is
\* served, and the failure is what the caller gets back.
C13_StartupFailureAborts ==
    /\ [](lerr = ErrBind
            \/ result \in {"failed to create MCP server",
                           "failed to open log file"}
          => (listener # "open" /\ cur = <<>>
                /\ \A c \in Conns : conns[c] = "free"))
    /\ [][ (ctl = "select" /\ ctl' # "select"
              /\ errC = <<ErrBind>>)
           => result' = "error running server: " \o ErrBind ]_vars

C15_DeployedPathsServed ==
    \A i \in DOMAIN cur :
        (/\ cfgBasePath = sseCmdBasePath
         /\ cur[i].req.method # "OPTIONS"
         /\ cur[i].req.path \in {DocumentedSSEPath, DocumentedMessagePath})
        => /\ GateCalled(cur[i].w)
           /\ RoutedEngineHandler(cur[i].req.path) \in EngineHandlers

\* C16: serving a request whose extraction fails (through either gate) changes
\* nothing of the process lifecycle: the controller stays where it is, errC,
\* the signal context, the listener and its goroutine are untouched and so is
\* the value RunSSEServerWithSimpleAuth returns.
C16_ExtractionFailureStaysInGate ==
    [][ (/\ Len(cur') = Len(cur) + 1
         /\ GateCalled(cur'[Len(cur')].w)
         /\ ~Extractable(cur'[Len(cur')].req.header))
        => UNCHANGED lifeVars ]_vars

\* the server is in its select with nothing on errC while a request without
\* credentials has just been answered 401 by the strict gate
C16_Witness ==
    /\ ctl = "select"
    /\ errC = <<>>
    /\ result = "none"
    /\ \E i \in DOMAIN cur :
          /\ Called(cur[i].w, "AuthenticationMiddleware")
          /\ ~Extractable(cur[i].req.header)
          /\ cur[i].w.status = StatusUnauthorized

\* the identities the downstream handler of an exchange was given
ObservedIdentity(x) ==
    [k \in DOMAIN x.w.seen |-> GetUserContext(x.w.seen[k])]

IsStream(x) ==
    /\ x.req.method = "GET"
    /\ Called(x.w, "SSEHandler")
    /\ x.w.status = StatusOK

\* C18: while the server is Running, no step cuts the connection of an open
\* event stream at the write deadline; a stream's connection ends only by
\* the client closing it or by shutdown.
C18_StreamExemptFromWriteTimeout ==
    [][ \A i \in DOMAIN cur :
            (Running /\ IsStream(cur[i])) => conns'[cur[i].conn] # "timeout" ]_vars

\* the Authorization value that is the bearer prefix and nothing else
OnlyBearerPrefix(a) ==
    a = <<"B", "e", "a", "r", "e", "r", " ">>

\* C19: a request whose Authorization header is exactly "Bearer " (nothing
\* after the prefix) and whose X-User-ID and X-User-Email are non-empty is
\* accepted: extraction succeeds with an empty Token, the gate (the strict
\* one included) answers no 401 and invokes the downstream handler once, and
\* the record that handler finds has Token equal to the empty string.
C19_EmptyTokenAccepted ==
    \A i \in DOMAIN cur :
        LET w == cur[i].w
            h == cur[i].req.header
        IN  (/\ GateCalled(w)
             /\ OnlyBearerPrefix(h["Authorization"])
             /\ Len(h["X-User-ID"]) > 0
             /\ Len(h["X-User-Email"]) > 0)
            => /\ extractUserContext(cur[i].req).ok
               /\ Len(extractUserContext(cur[i].req).user.Token) = 0
               /\ w.status # 401
               /\ Cardinality(EngineCalls(w)) = 1
               /\ Len(w.seen) = 1
               /\ GetUserContext(w.seen[1]).ok
               /\ GetUserContext(w.seen[1]).user.Token = <<>>

\* the strict gate has let a request with Authorization "Bearer " through to
\* the message handler
C19_Witness ==
    \E i \in DOMAIN cur :
        /\ Called(cur[i].w, "AuthenticationMiddleware")
        /\ OnlyBearerPrefix(cur[i].req.header["Authorization"])
        /\ Called(cur[i].w, "MessageHandler")
        /\ cur[i].w.status = 202
        /\ GetUserContext(cur[i].w.seen[1]).user.Token = <<>>

\* C20: looking up a context gives the record last attached with
\* WithUserContext together with true, or absence (nil, false) when none was
\* attached; attaching any record u and looking up at once gives (u, true);
\* a value stored under any other key, the plain string "user_context"
\* included, is never returned and never changes what the lookup gives.
C20_AttachThenLookup ==
    /\ GetUserContext(kctx) = kuser
    /\ (\A i \in DOMAIN kctx :
            kctx[i].key # [type |-> "ghmcp.contextKey", name |-> "user_context"])
       => GetUserContext(kctx) = [user |-> NilUser, ok |-> FALSE]
    /\ \A u \in CtxUsers :
           GetUserContext(WithUserContext(kctx, u)) = [user |-> u, ok |-> TRUE]
    /\ \A key \in OtherKeys, val \in OtherValues :
           GetUserContext(Append(kctx, [key |-> key, val |-> val]))
               = GetUserContext(kctx)

\* an identity was attached and, after it, a different record was stored
\* under the plain string key "user_context": the lookup still gives the
\* attached identity
C20_Witness ==
    \E i, j \in DOMAIN kctx :
        /\ i < j
        /\ kctx[i].key = [type |-> "ghmcp.contextKey", name |-> "user_context"]
        /\ kctx[j].key = [type |-> "string", name |-> "user_context"]
        /\ kctx[j].val # kctx[i].val
        /\ kctx[i].val # NilUser
        /\ GetUserContext(kctx) = [user |-> kctx[i].val, ok |-> TRUE]

\* the signal arrived before the controller reached its select
SignalledWhileStarting == sigAt \in {"start", "logfile", "listen"}

\* C21: a termination signal delivered during Starting is not lost: unless
\* startup itself fails (engine, log file or bind), the controller goes on to
\* its select, observes the cancellation, calls Shutdown before it returns,
\* and does return; it does not stay in its select with the signal pending.
C21_SignalNeverLost ==
    /\ SignalledWhileStarting ~> (ctl = "returned")
    /\ (ctxDone /\ ctl = "select") ~> (ctl # "select")
    /\ [][ (/\ SignalledWhileStarting
            /\ ctl # "returned"
            /\ ctl' = "returned"
            /\ lerr # ErrBind
            /\ result' \notin {"failed to create MCP server",
                               "failed to open log file"})
           => (ctl = "draining" /\ inShutdown) ]_vars

\* C22: the listener goroutine is started once and sends once: errC is empty
\* until that send, so the send never finds errC full and always completes
\* (whether the signal branch or the error branch of the select is taken, and
\* whether or not anybody ever receives), after which the goroutine is done;
\* the controller never waits for the goroutine after its select.
C22_ListenerSendNeverBlocks ==
    /\ [](lst # "done" => errC = <<>>)
    /\ [](lst = "send" => Len(errC) < ErrCCap)
    /\ [](Len(errC) <= ErrCCap)
    /\ [][ (lst' = "spawned") => (lst = "unstarted" \/ lst = "spawned") ]_vars
    /\ [][ (errC' # errC /\ Len(errC') > Len(errC))
           => (lst = "send" /\ lst' = "done" /\ errC' = Append(errC, lerr)) ]_vars
    /\ (lst = "send") ~> (lst = "done" \/ ctl = "returned")

\* the signal branch won the select, Shutdown made ListenAndServe return, the
\* goroutine completed its send and is done, and the controller returned
\* without anybody receiving from errC
C22_Witness ==
    /\ ctl = "returned"
    /\ result = "nil"
    /\ lst = "done"
    /\ errC = << ErrServerClosed >>
====
